---- MODULE Spec2Model ----
(***************************************************************************)
(* Model of the Solar Houses Detection pipeline                            *)
(* (src/solar_houses_detector.py, src/run_solar_houses.py).                *)
(*                                                                         *)
(* Representation choices                                                  *)
(*   - a Python str is a sequence of text chunks; the location typed by    *)
(*     the user is a sequence of one-character chunks, so that lower(),    *)
(*     the substring test, split(',') and strip() are computed character   *)
(*     by character; string literals of the source are one chunk.          *)
(*   - None is the empty set and a present value x is {x}.                 *)
(*   - degrees are integers in units of 1e-4 degree; values the code       *)
(*     rounds to one decimal (kW, years, percent) are integers in tenths.  *)
(*   - every call of the random module takes its outcome from a draw       *)
(*     record; the draw records range over sampled outcomes that include   *)
(*     both ends of every range the code draws from.                       *)
(***************************************************************************)
EXTENDS Integers, Sequences, FiniteSets, TLC

VARIABLES
    pc,             \* position of the running call
    location,       \* the location string passed in
    count,          \* max_properties / count passed in
    location_data,  \* result of _get_location_data
    properties,     \* list built by generate_realistic_properties
    idx,            \* number of loop iterations of process_properties completed
    results,        \* the results list of process_properties
    files,          \* output files on disk: results_csv, summary_csv, report, map
    images,         \* files under house_images/
    events,         \* observable steps of the run, in order
    ret,            \* what process_properties handed to its caller
    stdout,         \* what the entry point printed last
    arg,            \* argument of a single call under test
    res             \* result of a single call under test

vars == <<pc, location, count, location_data, properties, idx, results,
          files, images, events, ret, stdout, arg, res>>

None == {}
Some(x) == {x}

-----------------------------------------------------------------------------
(* Bounds of the model *)

\* largest count / max_properties handed to the pipeline
MaxCount == 3
\* largest count handed to generate_realistic_properties called on its own
GenMaxCount == 4
\* largest number of fragments a location string is assembled from
MaxFragments == 2

-----------------------------------------------------------------------------
(* Python str operations, character by character *)

UpperChars == <<"A", "B", "C", "D", "E", "F", "G", "H", "I", "J", "K", "L", "M",
                "N", "O", "P", "Q", "R", "S", "T", "U", "V", "W", "X", "Y", "Z">>
LowerChars == <<"a", "b", "c", "d", "e", "f", "g", "h", "i", "j", "k", "l", "m",
                "n", "o", "p", "q", "r", "s", "t", "u", "v", "w", "x", "y", "z">>

\* str.lower() on one character
LowerChar(c) ==
    IF \E k \in 1..Len(UpperChars) : UpperChars[k] = c
    THEN LowerChars[CHOOSE k \in 1..Len(UpperChars) : UpperChars[k] = c]
    ELSE c

\* str.lower()
StrLower(s) == [k \in 1..Len(s) |-> LowerChar(s[k])]

\* key in s
StrContains(s, key) ==
    \E k \in 0..(Len(s) - Len(key)) : SubSeq(s, k + 1, k + Len(key)) = key

\* s.split(',')[0]
SplitCommaFirst(s) ==
    IF \E k \in 1..Len(s) : s[k] = ","
    THEN SubSeq(s, 1, (CHOOSE k \in 1..Len(s) :
                          s[k] = "," /\ \A j \in 1..(k - 1) : s[j] # ",") - 1)
    ELSE s

\* s.strip()
StrStrip(s) ==
    IF \A k \in 1..Len(s) : s[k] = " "
    THEN <<>>
    ELSE LET first == CHOOSE k \in 1..Len(s) :
                          s[k] # " " /\ \A j \in 1..(k - 1) : s[j] = " "
             last  == CHOOSE k \in 1..Len(s) :
                          s[k] # " " /\ \A j \in (k + 1)..Len(s) : s[j] = " "
         IN  SubSeq(s, first, last)

-----------------------------------------------------------------------------
(* _get_location_data *)

KEY_ST_TAMMANY_DOT == <<"s", "t", ".", " ", "t", "a", "m", "m", "a", "n", "y">>
KEY_ST_TAMMANY == <<"s", "t", " ", "t", "a", "m", "m", "a", "n", "y">>
KEY_NEW_ORLEANS == <<"n", "e", "w", " ", "o", "r", "l", "e", "a", "n", "s">>
KEY_NOLA == <<"n", "o", "l", "a">>
KEY_BATON_ROUGE == <<"b", "a", "t", "o", "n", " ", "r", "o", "u", "g", "e">>

Addr(address, has_solar, lat, lon) ==
    [address |-> address, has_solar |-> has_solar, lat |-> lat, lon |-> lon]

StTammanyData ==
    [bounds |-> [north |-> 307000, south |-> 301000, east |-> -897000, west |-> -905000],
     addresses |-> <<
        Addr(<<"1234 Tyler St, Covington, LA 70433">>, TRUE, 304755, -901009),
        Addr(<<"5678 Jefferson Ave, Covington, LA 70433">>, TRUE, 304789, -900956),
        Addr(<<"9012 Boston St, Covington, LA 70433">>, FALSE, 304723, -901023),
        Addr(<<"3456 Florida St, Covington, LA 70433">>, TRUE, 304812, -900887),
        Addr(<<"7890 Lakeshore Dr, Mandeville, LA 70448">>, TRUE, 303589, -900654),
        Addr(<<"2345 Girod St, Mandeville, LA 70448">>, FALSE, 303623, -900712),
        Addr(<<"6789 Monroe St, Mandeville, LA 70448">>, TRUE, 303556, -900598),
        Addr(<<"1234 Front St, Slidell, LA 70458">>, FALSE, 302756, -897812),
        Addr(<<"5678 2nd St, Slidell, LA 70458">>, TRUE, 302789, -897756),
        Addr(<<"9012 3rd St, Slidell, LA 70458">>, FALSE, 302723, -897834) >>,
     cities |-> << <<"Covington">>, <<"Mandeville">>, <<"Slidell">>, <<"Hammond">>,
                   <<"Abita Springs">>, <<"Lacombe">>, <<"Pearl River">>, <<"Folsom">> >>]

NewOrleansData ==
    [bounds |-> [north |-> 301000, south |-> 298000, east |-> -898000, west |-> -902000],
     addresses |-> <<
        Addr(<<"1234 Magazine St, New Orleans, LA 70130">>, TRUE, 299258, -900801),
        Addr(<<"5678 St. Charles Ave, New Orleans, LA 70130">>, FALSE, 299289, -900756),
        Addr(<<"9012 Canal St, New Orleans, LA 70112">>, TRUE, 299623, -900723),
        Addr(<<"3456 Bourbon St, New Orleans, LA 70116">>, FALSE, 299589, -900654),
        Addr(<<"7890 Royal St, New Orleans, LA 70116">>, TRUE, 299612, -900623) >>,
     cities |-> << <<"New Orleans">>, <<"Metairie">>, <<"Kenner">>, <<"Chalmette">>,
                   <<"Harvey">> >>]

BatonRougeData ==
    [bounds |-> [north |-> 306000, south |-> 303000, east |-> -910000, west |-> -913000],
     addresses |-> <<
        Addr(<<"1234 Government St, Baton Rouge, LA 70802">>, TRUE, 304515, -911873),
        Addr(<<"5678 Perkins Rd, Baton Rouge, LA 70810">>, FALSE, 304089, -911456),
        Addr(<<"9012 College Dr, Baton Rouge, LA 70808">>, TRUE, 304123, -911523),
        Addr(<<"3456 Highland Rd, Baton Rouge, LA 70808">>, FALSE, 304189, -911554) >>,
     cities |-> << <<"Baton Rouge">>, <<"Baker">>, <<"Zachary">>, <<"Central">>,
                   <<"Denham Springs">> >>]

GenericBounds ==
    [north |-> 305000, south |-> 300000, east |-> -900000, west |-> -905000]

\* the else branch: placeholder addresses built from the raw location
GenericData(loc) ==
    [bounds |-> GenericBounds,
     addresses |-> <<
        Addr(<<"1234 Main St, ">> \o loc, TRUE, 304000, -901000),
        Addr(<<"5678 Oak Ave, ">> \o loc, FALSE, 304100, -901100),
        Addr(<<"9012 Pine St, ">> \o loc, TRUE, 303900, -900900) >>,
     cities |-> << StrStrip(SplitCommaFirst(loc)) >>]

\* a resolver that forgets to lower-case its input
GetLocationDataCaseSensitive(loc) ==
    IF StrContains(loc, KEY_ST_TAMMANY_DOT) \/ StrContains(loc, KEY_ST_TAMMANY)
    THEN StTammanyData
    ELSE IF StrContains(loc, KEY_NEW_ORLEANS) \/ StrContains(loc, KEY_NOLA)
    THEN NewOrleansData
    ELSE IF StrContains(loc, KEY_BATON_ROUGE)
    THEN BatonRougeData
    ELSE GenericData(loc)

GetLocationData(loc) ==
    LET location_lower == StrLower(loc) IN
    IF StrContains(location_lower, KEY_ST_TAMMANY_DOT)
         \/ StrContains(location_lower, KEY_ST_TAMMANY)
    THEN StTammanyData
    ELSE IF StrContains(location_lower, KEY_NEW_ORLEANS)
              \/ StrContains(location_lower, KEY_NOLA)
    THEN NewOrleansData
    ELSE IF StrContains(location_lower, KEY_BATON_ROUGE)
    THEN BatonRougeData
    ELSE GenericData(loc)

-----------------------------------------------------------------------------
(* Location strings the inputs are drawn from *)

FragStTammany == <<"S", "t", ".", " ", "T", "a", "m", "m", "a", "n", "y">>
FragStTammanyUpper == <<"S", "T", " ", "T", "A", "M", "M", "A", "N", "Y">>
FragNewOrleans == <<"N", "e", "w", " ", "O", "r", "l", "e", "a", "n", "s">>
FragNola == <<"N", "O", "L", "A">>
FragCanola == <<"C", "a", "n", "o", "l", "a">>
FragBatonRouge == <<"B", "a", "t", "o", "n", " ", "R", "o", "u", "g", "e">>
FragBaton == <<"B", "a", "t", "o", "n">>
FragAustin == <<" ", "A", "u", "s", "t", "i", "n", " ">>
FragCommaState == <<",", " ", "L", "A">>
FragSpace == <<" ">>

Fragments ==
    {FragStTammany, FragStTammanyUpper, FragNewOrleans, FragNola, FragCanola,
     FragBatonRouge, FragBaton, FragAustin, FragCommaState, FragSpace}

RECURSIVE Concat(_)
Concat(ss) == IF ss = <<>> THEN <<>> ELSE Head(ss) \o Concat(Tail(ss))

\* every concatenation of at most MaxFragments fragments (the empty string included)
AllLocations ==
    UNION {{Concat(fs) : fs \in [1..n -> Fragments]} : n \in 0..MaxFragments}

-----------------------------------------------------------------------------
(* Outcomes of the random module *)

RoofTypes == <<"Asphalt Shingle", "Metal", "Tile", "Slate">>
StreetNames == <<"Main", "Oak", "Pine", "Cedar", "Maple">>

\* One draw record holds the outcome of every random call made for one property:
\*   roll     random.random() in hundredths (has_solar is roll < 30)
\*   panels   random.randint(15, 45)        area    random.uniform(25, 75)
\*   year     random.randint(2018, 2023)    size    round(random.uniform(5.0, 15.0), 1), tenths
\*   savings  random.randint(800, 2500)     value   random.randint(200000, 600000)
\*   roof     index of random.choice(roof types)   age   random.randint(5, 25)
\*   latfrac, lonfrac   position of random.uniform between its two ends (0 or 1)
\*   num      random.randint(100, 9999) as printed   street, city   indexes of random.choice
\* hi selects the upper end of every range that has no parameter of its own.
MkDraw(roll, hi, value, roof, age) ==
    [roll |-> roll,
     panels |-> IF hi THEN 45 ELSE 15,
     area |-> IF hi THEN 75 ELSE 25,
     year |-> IF hi THEN 2023 ELSE 2018,
     size |-> IF hi THEN 150 ELSE 50,
     savings |-> IF hi THEN 2500 ELSE 800,
     value |-> value,
     roof |-> roof,
     age |-> age,
     latfrac |-> IF hi THEN 1 ELSE 0,
     lonfrac |-> IF hi THEN 0 ELSE 1,
     num |-> IF hi THEN "9999" ELSE "100",
     street |-> IF hi THEN 5 ELSE 1,
     city |-> IF hi THEN 7 ELSE 0]

\* draws used when generate_realistic_properties is exercised on its own
GenDraws ==
    {MkDraw(0, FALSE, 200000, 1, 5),
     MkDraw(29, TRUE, 600000, 2, 25),
     MkDraw(30, FALSE, 300000, 3, 10),
     MkDraw(99, TRUE, 400000, 4, 20),
     MkDraw(29, FALSE, 400001, 2, 9),
     MkDraw(30, TRUE, 300001, 1, 19)}

\* draws used inside the pipeline: solar, high potential (100), low potential (60)
PipelineDraws ==
    {MkDraw(29, TRUE, 600000, 1, 25),
     MkDraw(30, FALSE, 500000, 2, 5),
     MkDraw(99, TRUE, 200000, 4, 25)}

\* outcomes of round(random.uniform(6.0, 12.0), 1) (tenths) and random.randint(600, 1800)
AnalysisDraws == [size : {60, 120}, savings : {600, 1800}]
PipelineAnalysisDraws ==
    {[size |-> 60, savings |-> 1800], [size |-> 120, savings |-> 600]}

-----------------------------------------------------------------------------
(* generate_realistic_properties *)

DigitChars == <<"0", "1", "2", "3", "4", "5", "6", "7", "8", "9">>

RECURSIVE DecimalDigits(_)
\* str(n) for n >= 0
DecimalDigits(n) ==
    IF n < 10 THEN <<DigitChars[n + 1]>>
    ELSE Append(DecimalDigits(n \div 10), DigitChars[(n % 10) + 1])

RECURSIVE ZeroPad(_, _)
\* the 0<width>d format: pad on the left with "0" up to width, never truncate
ZeroPad(s, width) == IF Len(s) >= width THEN s ELSE ZeroPad(<<"0">> \o s, width)

\* f"PROP_{i+1:06d}" numbered from the 0-based loop index itself
PropertyIdZeroBased(i) == <<"PROP_">> \o ZeroPad(DecimalDigits(i), 6)

\* f"PROP_{i+1:06d}" for the 0-based loop index i
PropertyId(i) == <<"PROP_">> \o ZeroPad(DecimalDigits(i + 1), 6)

\* f"Property Owner {i+1}"
OwnerName(i) == <<"Property Owner ">> \o DecimalDigits(i + 1)

\* the five installed-system fields, filled in even when the flag is false
SolarFieldsAlways(has_solar, d) ==
    [estimated_panel_count |-> d.panels,
     panel_area_sq_meters |-> d.area,
     installation_year |-> Some(d.year),
     system_size_kw |-> d.size,
     estimated_savings_annual |-> d.savings]

\* the five conditional expressions "<draw> if has_solar else 0 / None"
SolarFields(has_solar, d) ==
    [estimated_panel_count |-> IF has_solar THEN d.panels ELSE 0,
     panel_area_sq_meters |-> IF has_solar THEN d.area ELSE 0,
     installation_year |-> IF has_solar THEN Some(d.year) ELSE None,
     system_size_kw |-> IF has_solar THEN d.size ELSE 0,
     estimated_savings_annual |-> IF has_solar THEN d.savings ELSE 0]

PropertyData(i, address, lat, lon, has_solar, d) ==
    LET sf == SolarFields(has_solar, d) IN
    [property_id |-> PropertyId(i),
     owner_name |-> OwnerName(i),
     address |-> address,
     latitude |-> lat,
     longitude |-> lon,
     has_solar_panels |-> has_solar,
     estimated_panel_count |-> sf.estimated_panel_count,
     panel_area_sq_meters |-> sf.panel_area_sq_meters,
     installation_year |-> sf.installation_year,
     system_size_kw |-> sf.system_size_kw,
     estimated_savings_annual |-> sf.estimated_savings_annual,
     property_value |-> d.value,
     roof_type |-> RoofTypes[d.roof],
     roof_age_years |-> d.age]

\* the if branch of the loop body: the curated entry at position i
CuratedProperty(i, data, d) ==
    LET addr_data == data.addresses[i + 1] IN
    PropertyData(i, addr_data.address, addr_data.lat, addr_data.lon,
                 addr_data.has_solar, d)

\* the else branch of the loop body: a random property inside the bounds
SyntheticProperty(i, data, d) ==
    LET bounds == data.bounds
        lat == bounds.south + d.latfrac * (bounds.north - bounds.south)
        lon == bounds.west + d.lonfrac * (bounds.east - bounds.west)
        has_solar == d.roll < 30
        city == data.cities[(d.city % Len(data.cities)) + 1]
        address == <<d.num, " ", StreetNames[d.street], " St, ">> \o city
    IN  PropertyData(i, address, lat, lon, has_solar, d)

\* a loop body that picks the curated entry at random instead of by position
LoopBodyShuffled(i, data, d) ==
    IF i < Len(data.addresses)
    THEN LET addr_data == data.addresses[(d.city % Len(data.addresses)) + 1] IN
         PropertyData(i, addr_data.address, addr_data.lat, addr_data.lon,
                      addr_data.has_solar, d)
    ELSE SyntheticProperty(i, data, d)

\* one iteration of "for i in range(count)"
LoopBody(i, data, d) ==
    IF i < Len(data.addresses)
    THEN CuratedProperty(i, data, d)
    ELSE SyntheticProperty(i, data, d)

\* generate_realistic_properties(count, location); draws[i + 1] is what the
\* random module hands out during iteration i
GenerateRealisticProperties(n, loc, draws) ==
    LET data == GetLocationData(loc) IN
    [k \in 1..n |-> LoopBody(k - 1, data, draws[k])]

-----------------------------------------------------------------------------
(* analyze_solar_potential *)

\* round(num / den, 0) as Python rounds: to nearest, ties to even (num >= 0, den > 0)
RoundDiv(num, den) ==
    LET q == num \div den
        r == num % den
    IN  IF 2 * r < den THEN q
        ELSE IF 2 * r > den THEN q + 1
        ELSE IF q % 2 = 0 THEN q ELSE q + 1

\* roof_bonus.get(roof_type, 0)
RoofBonus(roof_type) ==
    CASE roof_type = "Asphalt Shingle" -> 20
      [] roof_type = "Metal" -> 25
      [] roof_type = "Tile" -> 15
      [] roof_type = "Slate" -> 10
      [] OTHER -> 0

\* the roof age adjustment with the comparisons written <= instead of <
AgeBonusInclusive(roof_age_years) ==
    IF roof_age_years <= 10 THEN 15
    ELSE IF roof_age_years <= 20 THEN 10
    ELSE 0

\* the if / elif on roof_age_years
AgeBonus(roof_age_years) ==
    IF roof_age_years < 10 THEN 15
    ELSE IF roof_age_years < 20 THEN 10
    ELSE 0

\* the if / elif on property_value
ValueBonus(property_value) ==
    IF property_value > 400000 THEN 15
    ELSE IF property_value > 300000 THEN 10
    ELSE 0

\* base_score after the three adjustments
BaseScore(p) ==
    50 + RoofBonus(p.roof_type) + AgeBonus(p.roof_age_years)
       + ValueBonus(p.property_value)

Min(a, b) == IF a <= b THEN a ELSE b

\* an analysis that also files the savings under the record's own key
\* estimated_savings_annual
AnalyzeNewInstallationClobbers(p, d) ==
    LET cost == d.size * 300
    IN  [solar_potential_score |-> Min(100, BaseScore(p)),
         recommended_system_size_kw |-> d.size,
         estimated_installation_cost |-> cost,
         estimated_annual_savings |-> d.savings,
         estimated_savings_annual |-> d.savings,
         payback_period_years |-> RoundDiv(cost * 10, d.savings),
         roi_percentage |-> RoundDiv(d.savings * 20 * 100 * 10, cost)]

\* the else branch: potential for a new installation; d holds the two random outcomes
AnalyzeNewInstallation(p, d) ==
    LET cost == d.size * 300   \* size in tenths of a kW times 3000 per kW
    IN  [solar_potential_score |-> Min(100, BaseScore(p)),
         recommended_system_size_kw |-> d.size,
         estimated_installation_cost |-> cost,
         estimated_annual_savings |-> d.savings,
         payback_period_years |-> RoundDiv(cost * 10, d.savings),
         roi_percentage |-> RoundDiv(d.savings * 20 * 100 * 10, cost)]

\* the if branch: the property already has solar
AnalyzeExistingSolar(p) ==
    [solar_potential_score |-> 100,
     recommended_system_size_kw |-> p.system_size_kw,
     estimated_installation_cost |-> p.system_size_kw * 300,
     estimated_annual_savings |-> p.estimated_savings_annual,
     payback_period_years |-> 0,
     roi_percentage |-> 100 * 10]

\* a scorer that runs the new-installation heuristic for every property
AnalyzeIgnoringFlag(p, d) == AnalyzeNewInstallation(p, d)

AnalyzeSolarPotential(p, d) ==
    IF p.has_solar_panels
    THEN AnalyzeExistingSolar(p)
    ELSE AnalyzeNewInstallation(p, d)

-----------------------------------------------------------------------------
(* download_house_image *)

\* what requests.get does: it raises (timeout, connection error) or answers with a status
NetOutcomes ==
    {[exc |-> FALSE, status |-> 200], [exc |-> FALSE, status |-> 204],
     [exc |-> FALSE, status |-> 403], [exc |-> FALSE, status |-> 500],
     [exc |-> TRUE, status |-> 0]}

\* what open(filepath, 'wb') and f.write do
IoOutcomes == {"ok", "open_fails", "write_fails"}

\* f"{output_dir}/house_images/house_{latitude}_{longitude}_zoom{zoom_level}.png"
ImagePath(latitude, longitude, zoom_level) ==
    [dir |-> "house_images", latitude |-> latitude, longitude |-> longitude,
     zoom |-> zoom_level]

DownloadResult(r, raised, file) == [ret |-> r, raised |-> raised, file |-> file]

\* a fetcher whose handler covers the request only: a failed file write escapes
DownloadHouseImageNarrowExcept(latitude, longitude, zoom_level, net, io) ==
    LET filepath == ImagePath(latitude, longitude, zoom_level) IN
    IF net.exc THEN DownloadResult(None, FALSE, None)
    ELSE IF net.status = 200
    THEN CASE io = "ok" ->
                DownloadResult(Some(filepath), FALSE,
                               Some([path |-> filepath, complete |-> TRUE]))
           [] io = "open_fails" -> DownloadResult(None, TRUE, None)
           [] io = "write_fails" ->
                DownloadResult(None, TRUE,
                               Some([path |-> filepath, complete |-> FALSE]))
    ELSE DownloadResult(None, FALSE, None)

\* download_house_image: ret is the value returned, raised tells whether an
\* exception left the function, file is what the call left on disk
DownloadHouseImage(latitude, longitude, zoom_level, net, io) ==
    LET filepath == ImagePath(latitude, longitude, zoom_level) IN
    IF net.exc
    THEN DownloadResult(None, FALSE, None)          \* except Exception: return None
    ELSE IF net.status = 200
    THEN CASE io = "ok" ->
                DownloadResult(Some(filepath), FALSE,
                               Some([path |-> filepath, complete |-> TRUE]))
           [] io = "open_fails" ->                  \* except Exception: return None
                DownloadResult(None, FALSE, None)
           [] io = "write_fails" ->                 \* the file was created by open
                DownloadResult(None, FALSE,
                               Some([path |-> filepath, complete |-> FALSE]))
    ELSE DownloadResult(None, FALSE, None)          \* logger.warning; return None

\* the default zoom_level of download_house_image
DefaultZoom == 19

-----------------------------------------------------------------------------
(* process_properties: helpers *)

\* {**a, **b}: the keys of both, b winning where both have the key
DictMerge(a, b) ==
    [k \in (DOMAIN a) \cup (DOMAIN b) |-> IF k \in DOMAIN b THEN b[k] ELSE a[k]]

\* a result dict whose image_downloaded is set without looking at the path
ResultEntryAlwaysDownloaded(property_data, house_image_path, solar_analysis, now) ==
    DictMerge(
        DictMerge(
            DictMerge(property_data,
                      [house_image_path |-> house_image_path,
                       image_downloaded |-> TRUE]),
            solar_analysis),
        [processed_at |-> now])

\* the result dict of one property; now is datetime.now()
ResultEntry(property_data, house_image_path, solar_analysis, now) ==
    DictMerge(
        DictMerge(
            DictMerge(property_data,
                      [house_image_path |-> house_image_path,
                       image_downloaded |-> house_image_path # None]),
            solar_analysis),
        [processed_at |-> now])

\* a loop body that keeps a property only when its image was fetched
AppendResultIfImage(rs, entry) ==
    IF entry.image_downloaded THEN Append(rs, entry) ELSE rs

\* results.insert(0, result)
AppendResultFront(rs, entry) == <<entry>> \o rs

\* results.append(result)
AppendResult(rs, entry) == Append(rs, entry)

\* the image directory after one call of download_house_image
ImagesAfter(imgs, fetch) ==
    IF fetch.file = None THEN imgs
    ELSE {f \in imgs : \A g \in fetch.file : f.path # g.path} \cup fetch.file

SummaryColumns ==
    {"property_id", "owner_name", "address", "latitude", "longitude",
     "house_image_path", "has_solar_panels", "estimated_panel_count",
     "system_size_kw", "installation_year", "solar_potential_score",
     "recommended_system_size_kw", "estimated_installation_cost",
     "estimated_annual_savings", "payback_period_years", "roi_percentage",
     "property_value", "roof_type", "roof_age_years", "image_downloaded",
     "processed_at"}

\* a summary loop that leaves out the properties whose image is missing
SummaryDataImagesOnly(rs) ==
    LET kept == SelectSeq(rs, LAMBDA row : row.image_downloaded) IN
    [k \in 1..Len(kept) |-> [c \in SummaryColumns |-> kept[k][c]]]

\* summary_data: one dict per row of results_df, with the 21 summary columns
SummaryData(rs) ==
    [k \in 1..Len(rs) |-> [c \in SummaryColumns |-> rs[k][c]]]

\* the rows of the first table of the report and of the second
ReportTables(rs) ==
    [total_properties |-> Len(rs),
     solar_properties |-> SelectSeq(rs, LAMBDA row : row.has_solar_panels),
     high_potential |->
        SelectSeq(rs, LAMBDA row : ~row.has_solar_panels
                                   /\ row.solar_potential_score > 70)]

Marker(row, color) == [property_id |-> row.property_id, color |-> color]

RECURSIVE MarkersOf(_, _)
MarkersOf(rows, color) ==
    IF rows = <<>> THEN <<>>
    ELSE <<Marker(Head(rows), color)>> \o MarkersOf(Tail(rows), color)

\* markers with the high-potential test written >= 70
MapMarkersInclusive(rs) ==
    MarkersOf(SelectSeq(rs, LAMBDA row : row.has_solar_panels), "green")
    \o MarkersOf(SelectSeq(rs, LAMBDA row : ~row.has_solar_panels
                                  /\ row.solar_potential_score >= 70), "orange")
    \o MarkersOf(SelectSeq(rs, LAMBDA row : ~row.has_solar_panels
                                  /\ row.solar_potential_score <= 70), "blue")

\* the CircleMarkers added to the map, in the order they are added
MapMarkers(rs) ==
    MarkersOf(SelectSeq(rs, LAMBDA row : row.has_solar_panels), "green")
    \o MarkersOf(SelectSeq(rs, LAMBDA row : ~row.has_solar_panels
                                  /\ row.solar_potential_score > 70), "orange")
    \o MarkersOf(SelectSeq(rs, LAMBDA row : ~row.has_solar_panels
                                  /\ row.solar_potential_score <= 70), "blue")

NoFiles ==
    [results_csv |-> None, summary_csv |-> None, report |-> None, map |-> None]

Event(e, i) == [e |-> e, i |-> i]

\* the call of download_house_image for property i and what it returned
FetchEvent(fetch, i) ==
    Event(IF fetch.ret = None THEN "fetch_none" ELSE "fetch_path", i)

-----------------------------------------------------------------------------
(* Inputs of the pipeline *)

LocStTammanyParish == FragStTammany \o FragCommaState
LocBatonRouge == FragBatonRouge \o FragCommaState
LocAustin == FragAustin \o FragCommaState

PipelineLocations == {LocAustin, LocBatonRouge}
GenLocations ==
    {LocStTammanyParish, LocBatonRouge, LocAustin, FragNola, FragCanola, <<>>}

PipelineNetOutcomes ==
    {[exc |-> FALSE, status |-> 200], [exc |-> FALSE, status |-> 403],
     [exc |-> TRUE, status |-> 0]}
PipelineIoOutcomes == {"ok", "open_fails"}

-----------------------------------------------------------------------------
(* process_properties and the entry point, step by step *)

Init ==
    /\ pc = "start"
    /\ location \in PipelineLocations
    /\ count \in 0..MaxCount
    /\ location_data = None
    /\ properties = <<>>
    /\ idx = 0
    /\ results = <<>>
    /\ files = NoFiles
    /\ images = {}
    /\ events = <<>>
    /\ ret = None
    /\ stdout = None
    /\ arg = None
    /\ res = None

\* properties = self.generate_realistic_properties(max_properties, location)
Generate ==
    /\ pc = "start"
    /\ \E draws \in [1..count -> PipelineDraws] :
          properties' = GenerateRealisticProperties(count, location, draws)
    /\ location_data' = GetLocationData(location)
    /\ pc' = "loop"
    /\ events' = Append(events, Event("generate", 0))
    /\ UNCHANGED <<location, count, idx, results, files, images, ret, stdout, arg, res>>

\* a loop body without try / except: an exception in the per-property step
\* leaves process_properties and the remaining properties are never started
ProcessPropertyNoTry ==
    /\ pc = "loop"
    /\ idx < Len(properties)
    /\ \E net \in PipelineNetOutcomes, io \in PipelineIoOutcomes,
          d \in PipelineAnalysisDraws, fault \in BOOLEAN :
          LET property_data == properties[idx + 1]
              fetch == DownloadHouseImage(property_data.latitude,
                                          property_data.longitude,
                                          DefaultZoom, net, io)
              solar_analysis == AnalyzeSolarPotential(property_data, d)
              result == ResultEntry(property_data, fetch.ret, solar_analysis,
                                    idx + 1)
          IN  /\ images' = ImagesAfter(images, fetch)
              /\ IF fetch.raised \/ fault
                 THEN /\ results' = results
                      /\ events' = events \o <<FetchEvent(fetch, idx + 1),
                                               Event("error", idx + 1)>>
                      /\ pc' = "raised"
                 ELSE /\ results' = AppendResult(results, result)
                      /\ events' = events \o <<FetchEvent(fetch, idx + 1),
                                               Event("append", idx + 1),
                                               Event("sleep", idx + 1)>>
                      /\ pc' = pc
    /\ idx' = idx + 1
    /\ UNCHANGED <<location, count, location_data, properties, files, ret,
                   stdout, arg, res>>

\* one iteration of "for i, property_data in enumerate(properties)":
\* fault is an exception raised inside the try after the image call returned
ProcessProperty ==
    /\ pc = "loop"
    /\ idx < Len(properties)
    /\ \E net \in PipelineNetOutcomes, io \in PipelineIoOutcomes,
          d \in PipelineAnalysisDraws, fault \in BOOLEAN :
          LET property_data == properties[idx + 1]
              fetch == DownloadHouseImage(property_data.latitude,
                                          property_data.longitude,
                                          DefaultZoom, net, io)
              solar_analysis == AnalyzeSolarPotential(property_data, d)
              result == ResultEntry(property_data, fetch.ret, solar_analysis,
                                    idx + 1)
          IN  /\ images' = ImagesAfter(images, fetch)
              /\ IF fetch.raised \/ fault
                 THEN \* except Exception: logger.error(...); continue
                      /\ results' = results
                      /\ events' = events \o <<FetchEvent(fetch, idx + 1),
                                               Event("error", idx + 1)>>
                 ELSE /\ results' = AppendResult(results, result)
                      /\ events' = events \o <<FetchEvent(fetch, idx + 1),
                                               Event("append", idx + 1),
                                               Event("sleep", idx + 1)>>
    /\ idx' = idx + 1
    /\ UNCHANGED <<pc, location, count, location_data, properties, files, ret,
                   stdout, arg, res>>

\* the output block indented into the for loop: it runs after the first iteration
BuildDataFrameInsideLoop ==
    /\ pc = "loop"
    /\ idx >= 1 \/ idx = Len(properties)
    /\ IF results = <<>>
       THEN pc' = "returned" /\ ret' = Some(results)
       ELSE pc' = "write_results" /\ ret' = ret
    /\ UNCHANGED <<location, count, location_data, properties, idx, results,
                   files, images, events, stdout, arg, res>>

\* a pass that goes on to the output steps without testing results_df.empty
BuildDataFrameNoEmptyCheck ==
    /\ pc = "loop"
    /\ idx = Len(properties)
    /\ pc' = "write_results"
    /\ UNCHANGED <<location, count, location_data, properties, idx, results,
                   files, images, events, ret, stdout, arg, res>>

\* results_df = pd.DataFrame(results); if not results_df.empty: ... return results_df
BuildDataFrame ==
    /\ pc = "loop"
    /\ idx = Len(properties)
    /\ IF results = <<>>
       THEN pc' = "returned" /\ ret' = Some(results)
       ELSE pc' = "write_results" /\ ret' = ret
    /\ UNCHANGED <<location, count, location_data, properties, idx, results,
                   files, images, events, stdout, arg, res>>

\* results_df.to_csv(results_csv, index=False); an I/O error propagates
WriteResultsCsv ==
    /\ pc = "write_results"
    /\ \E ok \in BOOLEAN :
          IF ok
          THEN /\ files' = [files EXCEPT !.results_csv = Some(results)]
               /\ events' = Append(events, Event("results_csv", 0))
               /\ pc' = "write_summary"
          ELSE /\ files' = files
               /\ events' = Append(events, Event("raise", 0))
               /\ pc' = "raised"
    /\ UNCHANGED <<location, count, location_data, properties, idx, results,
                   images, ret, stdout, arg, res>>

\* summary_df = pd.DataFrame(summary_data); summary_df.to_csv(summary_csv, index=False)
WriteSummaryCsv ==
    /\ pc = "write_summary"
    /\ \E ok \in BOOLEAN :
          IF ok
          THEN /\ files' = [files EXCEPT !.summary_csv = Some(SummaryData(results))]
               /\ events' = Append(events, Event("summary_csv", 0))
               /\ pc' = "report"
          ELSE /\ files' = files
               /\ events' = Append(events, Event("raise", 0))
               /\ pc' = "raised"
    /\ UNCHANGED <<location, count, location_data, properties, idx, results,
                   images, ret, stdout, arg, res>>

\* a report step whose failure is swallowed the way the map's is
GenerateReportsCaught ==
    /\ pc = "report"
    /\ \E ok \in BOOLEAN :
          IF ok
          THEN /\ files' = [files EXCEPT !.report = Some(ReportTables(results))]
               /\ events' = Append(events, Event("report", 0))
          ELSE /\ files' = files
               /\ events' = events \o <<Event("report", 0), Event("raise", 0)>>
    /\ pc' = "map"
    /\ UNCHANGED <<location, count, location_data, properties, idx, results,
                   images, ret, stdout, arg, res>>

\* self._generate_reports(results_df); nothing catches a failure of the write
GenerateReports ==
    /\ pc = "report"
    /\ \E ok \in BOOLEAN :
          IF ok
          THEN /\ files' = [files EXCEPT !.report = Some(ReportTables(results))]
               /\ events' = Append(events, Event("report", 0))
               /\ pc' = "map"
          ELSE /\ files' = files
               /\ events' = events \o <<Event("report", 0), Event("raise", 0)>>
               /\ pc' = "raised"
    /\ UNCHANGED <<location, count, location_data, properties, idx, results,
                   images, ret, stdout, arg, res>>

\* a map step without its try / except: a rendering failure leaves process_properties
CreateInteractiveMapPropagates ==
    /\ pc = "map"
    /\ \E ok \in BOOLEAN :
          IF ok
          THEN /\ files' = [files EXCEPT !.map = Some(MapMarkers(results))]
               /\ ret' = Some(results)
               /\ pc' = "returned"
          ELSE /\ files' = files
               /\ ret' = ret
               /\ pc' = "raised"
    /\ events' = Append(events, Event("map", 0))
    /\ UNCHANGED <<location, count, location_data, properties, idx, results,
                   images, stdout, arg, res>>

\* self._create_interactive_map(results_df); return results_df
\* (the whole body of _create_interactive_map is inside try / except Exception)
CreateInteractiveMap ==
    /\ pc = "map"
    /\ \E ok \in BOOLEAN :
          files' = IF ok THEN [files EXCEPT !.map = Some(MapMarkers(results))]
                         ELSE files
    /\ events' = Append(events, Event("map", 0))
    /\ ret' = Some(results)
    /\ pc' = "returned"
    /\ UNCHANGED <<location, count, location_data, properties, idx, results,
                   images, stdout, arg, res>>

\* main(): the code after process_properties returned or raised
MainFinish ==
    /\ pc \in {"returned", "raised"}
    /\ stdout' = IF pc = "raised" THEN Some("error")
                 ELSE IF results # <<>> THEN Some("summary")
                 ELSE Some("no_properties")
    /\ pc' = "exit"
    /\ UNCHANGED <<location, count, location_data, properties, idx, results,
                   files, images, events, ret, arg, res>>

Next ==
    \/ Generate
    \/ ProcessProperty
    \/ BuildDataFrame
    \/ WriteResultsCsv
    \/ WriteSummaryCsv
    \/ GenerateReports
    \/ CreateInteractiveMap
    \/ MainFinish

Spec == Init /\ [][Next]_vars

-----------------------------------------------------------------------------
(* Single calls, each exercised on its own over a range of arguments *)

Idle ==
    /\ location_data = None
    /\ properties = <<>>
    /\ idx = 0
    /\ results = <<>>
    /\ files = NoFiles
    /\ images = {}
    /\ events = <<>>
    /\ ret = None
    /\ stdout = None
    /\ res = None

(* _get_location_data(location) *)
InitResolve ==
    /\ pc = "resolve_call"
    /\ location \in AllLocations
    /\ count = 0
    /\ arg = None
    /\ Idle

ResolveCall ==
    /\ pc = "resolve_call"
    /\ location_data' = GetLocationData(location)
    /\ pc' = "resolve_ret"
    /\ UNCHANGED <<location, count, properties, idx, results, files, images,
                   events, ret, stdout, arg, res>>

SpecResolve == InitResolve /\ [][ResolveCall]_vars

(* generate_realistic_properties(count, location) *)
InitGen ==
    /\ pc = "gen_call"
    /\ location \in GenLocations
    /\ count \in 0..GenMaxCount
    /\ arg = None
    /\ Idle

GenCall ==
    /\ pc = "gen_call"
    /\ \E draws \in [1..count -> GenDraws] :
          properties' = GenerateRealisticProperties(count, location, draws)
    /\ location_data' = GetLocationData(location)
    /\ pc' = "gen_ret"
    /\ UNCHANGED <<location, count, idx, results, files, images, events, ret,
                   stdout, arg, res>>

SpecGen == InitGen /\ [][GenCall]_vars

(* analyze_solar_potential(property_data) *)
ScoreRoofTypes == {"Asphalt Shingle", "Metal", "Tile", "Slate", "Wood Shake"}
ScoreRoofAges == {0, 5, 9, 10, 11, 19, 20, 21, 25}
ScorePropertyValues == {200000, 300000, 300001, 400000, 400001, 500000, 600000}

ScoreInputs ==
    {DictMerge(SolarFields(has_solar, MkDraw(0, hi, 0, 1, 0)),
               [has_solar_panels |-> has_solar, roof_type |-> roof,
                roof_age_years |-> age, property_value |-> value]) :
        has_solar \in BOOLEAN, hi \in BOOLEAN, roof \in ScoreRoofTypes,
        age \in ScoreRoofAges, value \in ScorePropertyValues}

InitScore ==
    /\ pc = "score_call"
    /\ arg \in ScoreInputs
    /\ location = <<>>
    /\ count = 0
    /\ Idle

ScoreCall ==
    /\ pc = "score_call"
    /\ \E d \in AnalysisDraws : res' = AnalyzeSolarPotential(arg, d)
    /\ pc' = "score_ret"
    /\ UNCHANGED <<location, count, location_data, properties, idx, results,
                   files, images, events, ret, stdout, arg>>

SpecScore == InitScore /\ [][ScoreCall]_vars

(* download_house_image(latitude, longitude, zoom_level) *)
FetchInputs ==
    [latitude : {304755, 300000}, longitude : {-901009, -905000},
     zoom_level : {DefaultZoom, DefaultZoom - 1}]

InitFetch ==
    /\ pc = "fetch_call"
    /\ arg \in FetchInputs
    /\ location = <<>>
    /\ count = 0
    /\ Idle

FetchCall ==
    /\ pc = "fetch_call"
    /\ \E net \in NetOutcomes, io \in IoOutcomes :
          LET fetch == DownloadHouseImage(arg.latitude, arg.longitude,
                                          arg.zoom_level, net, io)
          IN  /\ res' = [net |-> net, io |-> io, out |-> fetch]
              /\ images' = ImagesAfter(images, fetch)
    /\ pc' = "fetch_ret"
    /\ UNCHANGED <<location, count, location_data, properties, idx, results,
                   files, events, ret, stdout, arg>>

SpecFetch == InitFetch /\ [][FetchCall]_vars

-----------------------------------------------------------------------------
(* Reading values back *)

IsDigits(cell) ==
    /\ cell # <<>>
    /\ \A k \in 1..Len(cell) : \E n \in 1..Len(DigitChars) : DigitChars[n] = cell[k]

RECURSIVE DecimalValue(_)
\* int(cell) for a cell made of digits
DecimalValue(cell) ==
    IF cell = <<>> THEN 0
    ELSE 10 * DecimalValue(SubSeq(cell, 1, Len(cell) - 1))
         + ((CHOOSE n \in 1..Len(DigitChars) : DigitChars[n] = cell[Len(cell)]) - 1)

\* pandas.read_csv on one column: a column whose every cell is a number comes
\* back as integers, any other column comes back as the text that was written
ReadCsvColumn(cells) ==
    IF cells # <<>> /\ \A k \in 1..Len(cells) : IsDigits(cells[k])
    THEN [k \in 1..Len(cells) |-> [int |-> DecimalValue(cells[k])]]
    ELSE [k \in 1..Len(cells) |-> [str |-> cells[k]]]

Range(f) == {f[k] : k \in DOMAIN f}

EventNames == {events[k].e : k \in 1..Len(events)}

-----------------------------------------------------------------------------
(* Properties of the Property Generator *)

\* C1: generate_realistic_properties(count, location) returns exactly count
\* records; the record at 0-based position i carries the id "PROP_" followed by
\* the number i+1 (six digits, zero padded), so the ids are pairwise distinct
\* and run 1..count without gaps.
C1_SequentialIds ==
    pc = "gen_ret" =>
        /\ Len(properties) = count
        /\ \A k \in 1..Len(properties) :
              LET pid == properties[k].property_id IN
              /\ Head(pid) = "PROP_"
              /\ IsDigits(Tail(pid))
              /\ DecimalValue(Tail(pid)) = k
        /\ \A j, k \in 1..Len(properties) :
              j # k => properties[j].property_id # properties[k].property_id

C1_Witness ==
    /\ pc = "gen_ret"
    /\ count >= 3
    /\ Len(properties) = count
    /\ DecimalValue(Tail(properties[count].property_id)) = count

\* an address of the form "<number> <street> St, <city>" with a city of the region
IsSyntheticAddress(a, data) ==
    /\ Len(a) >= 4
    /\ a[2] = " "
    /\ a[3] \in Range(StreetNames)
    /\ a[4] = " St, "
    /\ SubSeq(a, 5, Len(a)) \in Range(data.cities)

\* C2: every position below both count and the number of curated addresses of
\* the resolved location carries the address, latitude, longitude and solar
\* flag of the curated entry at the same position; every position at or beyond
\* the curated list is a synthetic record (random street address in a city of
\* the region, coordinates inside the bounding box).
C2_CuratedInOrder ==
    pc = "gen_ret" =>
        \A k \in 1..Len(properties) :
            LET p == properties[k]
                curated == location_data.addresses
                bounds == location_data.bounds
            IN  IF k <= Len(curated)
                THEN /\ p.address = curated[k].address
                     /\ p.latitude = curated[k].lat
                     /\ p.longitude = curated[k].lon
                     /\ p.has_solar_panels = curated[k].has_solar
                ELSE /\ IsSyntheticAddress(p.address, location_data)
                     /\ p.latitude \in bounds.south..bounds.north
                     /\ p.longitude \in bounds.west..bounds.east

C2_Witness ==
    /\ pc = "gen_ret"
    /\ Len(properties) > Len(location_data.addresses)
    /\ properties[2].address = location_data.addresses[2].address
    /\ IsSyntheticAddress(properties[Len(properties)].address, location_data)

SolarShapeAbsent(p) ==
    /\ ~p.has_solar_panels
    /\ p.estimated_panel_count = 0
    /\ p.panel_area_sq_meters = 0
    /\ p.system_size_kw = 0
    /\ p.estimated_savings_annual = 0
    /\ p.installation_year = None

SolarShapeInstalled(p) ==
    /\ p.has_solar_panels
    /\ p.estimated_panel_count \in 15..45
    /\ p.panel_area_sq_meters \in 25..75
    /\ p.system_size_kw \in 50..150
    /\ p.estimated_savings_annual \in 800..2500
    /\ p.installation_year # None
    /\ p.installation_year \subseteq 2018..2023

\* C3: every generated record, curated or synthetic, has one of two shapes:
\* flag false with panel count, area, size and savings 0 and no installation
\* year, or flag true with all five fields non-zero and inside their ranges
\* (panels 15..45, year 2018..2023, size 5.0..15.0 kW, savings 800..2500).
C3_SolarShape ==
    pc = "gen_ret" =>
        \A k \in 1..Len(properties) :
            SolarShapeAbsent(properties[k]) \/ SolarShapeInstalled(properties[k])

C3_Witness ==
    /\ pc = "gen_ret"
    /\ Len(properties) > Len(location_data.addresses)
    /\ \E j, k \in 1..Len(properties) :
          /\ j > Len(location_data.addresses)
          /\ SolarShapeAbsent(properties[j])
          /\ SolarShapeInstalled(properties[k])

-----------------------------------------------------------------------------
(* Properties of the Potential Scorer *)

\* C4: for a record with has_solar_panels true the analysis is score 100,
\* payback 0, ROI 100, recommended size = system_size_kw, annual savings =
\* estimated_savings_annual and cost = system_size_kw * 3000, whatever the roof
\* type, roof age and property value.
C4_ExistingSolar ==
    (pc = "score_ret" /\ arg.has_solar_panels) =>
        /\ res.solar_potential_score = 100
        /\ res.payback_period_years = 0
        /\ res.roi_percentage = 1000                    \* 100.0 in tenths
        /\ res.recommended_system_size_kw = arg.system_size_kw
        /\ res.estimated_annual_savings = arg.estimated_savings_annual
        /\ res.estimated_installation_cost * 10 = arg.system_size_kw * 3000

C4_Witness ==
    /\ pc = "score_ret"
    /\ arg.has_solar_panels
    /\ arg.roof_type = "Slate"
    /\ arg.roof_age_years = 25
    /\ arg.property_value = 200000
    /\ res.solar_potential_score = 100

\* C5: for a record with has_solar_panels false the score is
\* min(100, 50 + roof + age + value): roof 20/25/15/10 for Asphalt Shingle/
\* Metal/Tile/Slate and 0 otherwise; age 15 below 10, 10 below 20, else 0;
\* value 15 above 400000, 10 above 300000, else 0.  Metal, age 5, value 500000
\* gives 105 clamped to 100, and no score exceeds 100.
C5_NewInstallationScore ==
    (pc = "score_ret" /\ ~arg.has_solar_panels) =>
        LET roof == IF arg.roof_type = "Asphalt Shingle" THEN 20
                    ELSE IF arg.roof_type = "Metal" THEN 25
                    ELSE IF arg.roof_type = "Tile" THEN 15
                    ELSE IF arg.roof_type = "Slate" THEN 10
                    ELSE 0
            age == IF arg.roof_age_years <= 9 THEN 15
                   ELSE IF arg.roof_age_years <= 19 THEN 10
                   ELSE 0
            value == IF arg.property_value >= 400001 THEN 15
                     ELSE IF arg.property_value >= 300001 THEN 10
                     ELSE 0
            total == 50 + roof + age + value
        IN  /\ res.solar_potential_score = (IF total > 100 THEN 100 ELSE total)
            /\ res.solar_potential_score <= 100
            /\ (arg.roof_type = "Metal" /\ arg.roof_age_years = 5
                  /\ arg.property_value = 500000)
                  => (total = 105 /\ res.solar_potential_score = 100)
            /\ (arg.roof_age_years = 10 /\ arg.property_value = 400000
                  /\ arg.roof_type = "Wood Shake")
                  => res.solar_potential_score = 70
            /\ (arg.roof_age_years = 20 /\ arg.property_value = 300000
                  /\ arg.roof_type = "Wood Shake")
                  => res.solar_potential_score = 50

C5_Witness ==
    /\ pc = "score_ret"
    /\ ~arg.has_solar_panels
    /\ arg.roof_type = "Metal"
    /\ arg.roof_age_years = 5
    /\ arg.property_value = 500000
    /\ res.solar_potential_score = 100

-----------------------------------------------------------------------------
(* Properties of the Pipeline Orchestrator *)

PassFinished == pc \notin {"start", "loop"}

\* C6: a failed image fetch never removes a property: when the pass is over,
\* every fetch of the run returned absent and no exception was raised in the
\* per-property step, the result collection has as many entries as were
\* generated, each with image_downloaded false and house_image_path absent.
C6_FetchFailureKeepsProperty ==
    (PassFinished /\ "fetch_path" \notin EventNames /\ "error" \notin EventNames) =>
        /\ Len(results) = Len(properties)
        /\ Len(results) = count
        /\ \A k \in 1..Len(results) :
              /\ results[k].image_downloaded = FALSE
              /\ results[k].house_image_path = None
              /\ results[k].property_id = properties[k].property_id

C6_Witness ==
    /\ pc = "returned"
    /\ count = MaxCount
    /\ "fetch_path" \notin EventNames
    /\ "error" \notin EventNames
    /\ "fetch_none" \in EventNames
    /\ Len(results) = MaxCount
    /\ results[1].image_downloaded = FALSE

OutputEvents == {"results_csv", "summary_csv", "report", "map", "raise"}

\* C7: when the result collection is empty at the end of the pass (count 0 or
\* every property dropped), process_properties returns the empty collection
\* without raising, no results CSV, summary CSV, report or map is written or
\* invoked, and the entry point reports the empty result.
C7_EmptyResultSkipsOutputs ==
    (PassFinished /\ results = <<>>) =>
        /\ pc \in {"returned", "exit"}
        /\ ret = Some(<<>>)
        /\ files = NoFiles
        /\ EventNames \cap OutputEvents = {}
        /\ pc = "exit" => stdout = Some("no_properties")

C7_Witness ==
    /\ pc = "exit"
    /\ results = <<>>
    /\ Len(properties) = MaxCount
    /\ "error" \in EventNames
    /\ ret = Some(<<>>)
    /\ files = NoFiles

\* the property_id values read back from a written summary CSV
SummaryIdsReadBack(file) ==
    Range(ReadCsvColumn([k \in 1..Len(file) |-> file[k].property_id]))

\* C8: a summary CSV written by process_properties has exactly one row per
\* result entry, and reading it back gives a set of property_id values equal
\* to the set of property_id values of the in-memory result collection.
C8_SummaryRoundTrip ==
    files.summary_csv # None =>
        \A file \in files.summary_csv :
            /\ Len(file) = Len(results)
            /\ SummaryIdsReadBack(file)
                 = {[str |-> results[k].property_id] : k \in 1..Len(results)}
            /\ Cardinality(SummaryIdsReadBack(file)) = Len(file)

C8_Witness ==
    /\ files.summary_csv # None
    /\ Len(results) >= 2
    /\ Len(results) < Len(properties)
    /\ \E k \in 1..Len(results) : ~results[k].image_downloaded

-----------------------------------------------------------------------------
(* Properties of the Location Resolver *)

HasKey(loc, keys) == \E key \in keys : StrContains(StrLower(loc), key)

\* C9: _get_location_data is defined for every string: it tests the
\* lower-cased input for the keys of St. Tammany, then New Orleans, then Baton
\* Rouge, and returns the data of the first region with a key in the input; an
\* input without any key gets the generic bounding box and exactly three
\* placeholder addresses, each embedding the raw input.
C9_FirstRegionWins ==
    pc = "resolve_ret" =>
        LET tammany == HasKey(location, {KEY_ST_TAMMANY_DOT, KEY_ST_TAMMANY})
            orleans == HasKey(location, {KEY_NEW_ORLEANS, KEY_NOLA})
            baton == HasKey(location, {KEY_BATON_ROUGE})
        IN  /\ tammany => location_data = StTammanyData
            /\ (~tammany /\ orleans) => location_data = NewOrleansData
            /\ (~tammany /\ ~orleans /\ baton) => location_data = BatonRougeData
            /\ (~tammany /\ ~orleans /\ ~baton) =>
                  /\ location_data.bounds = GenericBounds
                  /\ Len(location_data.addresses) = 3
                  /\ \A k \in 1..3 :
                        LET a == location_data.addresses[k].address IN
                        /\ Len(a) = 1 + Len(location)
                        /\ SubSeq(a, 2, Len(a)) = location

C9_Witness ==
    /\ pc = "resolve_ret"
    /\ location = FragNola \o FragStTammanyUpper
    /\ location_data = StTammanyData

-----------------------------------------------------------------------------
(* Properties of the Image Fetcher *)

\* C10: download_house_image never raises to its caller; it returns the image
\* path exactly when the response status is 200 and the bytes were written,
\* and absent for every other status and for every exception of the request or
\* of the file write; a non-200 response leaves no image file.
C10_FetchNeverRaises ==
    pc = "fetch_ret" =>
        LET ok == ~res.net.exc /\ res.net.status = 200 /\ res.io = "ok"
            filepath == ImagePath(arg.latitude, arg.longitude, arg.zoom_level)
        IN  /\ ~res.out.raised
            /\ ok => /\ res.out.ret = Some(filepath)
                     /\ [path |-> filepath, complete |-> TRUE] \in images
            /\ ~ok => res.out.ret = None
            /\ (res.net.exc \/ res.net.status # 200) => images = {}

C10_Witness ==
    /\ pc = "fetch_ret"
    /\ ~res.net.exc
    /\ res.net.status = 200
    /\ res.io = "write_fails"
    /\ res.out.ret = None
    /\ ~res.out.raised

-----------------------------------------------------------------------------
(* Properties of the per-property step *)

\* the 1-based positions of the properties an event of the given names was logged for
EventIndexes(names) ==
    {events[k].i : k \in {j \in 1..Len(events) : events[j].e \in names}}

\* how many events of the given names were logged
EventCount(names) ==
    Cardinality({k \in 1..Len(events) : events[k].e \in names})

FetchEvents == {"fetch_none", "fetch_path"}

C11_DroppedAndContinued ==
    /\ \A i \in EventIndexes({"error"}) :
          \A k \in 1..Len(results) :
              results[k].property_id # properties[i].property_id
    /\ PassFinished => EventIndexes(FetchEvents) = 1..Len(properties)
    /\ pc = "raised" => "raise" \in EventNames

C11_NoRollbackStep ==
    /\ Len(results') >= Len(results)
    /\ SubSeq(results', 1, Len(results)) = results

\* C11: when the per-property step raises an unexpected exception, that
\* property is absent from the result collection, every result appended before
\* stays as it was (no step ever removes or changes an appended result), every
\* later property is still processed, and the exception does not leave
\* process_properties (only a failed output step does).
C11_PropertyErrorIsolated ==
    []C11_DroppedAndContinued /\ [][C11_NoRollbackStep]_vars

C11_Witness ==
    /\ pc = "exit"
    /\ stdout = Some("summary")
    /\ Len(properties) = MaxCount
    /\ EventIndexes({"error"}) = {2}
    /\ Len(results) = MaxCount - 1
    /\ results[1].property_id = properties[1].property_id
    /\ results[2].property_id = properties[3].property_id

\* C12: the fixed pause is taken once after every generated property, also
\* when the image fetch failed and also when the processing of the property
\* raised, so a finished pass has made as many pauses as there are generated
\* properties.
C12_PauseAfterEveryProperty ==
    /\ EventCount({"sleep"}) = idx
    /\ PassFinished => EventCount({"sleep"}) = Len(properties)

-----------------------------------------------------------------------------
(* Properties of the output steps *)

EventPositions(names) == {k \in 1..Len(events) : events[k].e \in names}

\* every event named in first comes before every event named in second
AllBefore(first, second) ==
    \A j \in EventPositions(first), k \in EventPositions(second) : j < k

\* an event named in second is there only if one named in first is
Requires(second, first) ==
    EventPositions(second) # {} => EventPositions(first) # {}

PropertyEvents == {"fetch_none", "fetch_path", "append", "sleep", "error"}
OutputSteps == {"results_csv", "summary_csv", "report", "map"}

\* C13: the output steps come only after the last property was processed and
\* in the order results CSV, summary CSV, report, map; none of them happens
\* while a property is still unprocessed, each happens at most once, and only
\* for a non-empty result collection.
C13_OutputsAfterPassInOrder ==
    /\ \A name \in OutputSteps : EventCount({name}) <= 1
    /\ EventPositions(OutputSteps) # {} =>
          /\ pc # "loop"
          /\ idx = Len(properties)
          /\ EventIndexes(FetchEvents) = 1..Len(properties)
          /\ results # <<>>
    /\ AllBefore(PropertyEvents, OutputSteps)
    /\ AllBefore({"results_csv"}, {"summary_csv"})
    /\ AllBefore({"summary_csv"}, {"report"})
    /\ AllBefore({"report"}, {"map"})
    /\ Requires({"summary_csv"}, {"results_csv"})
    /\ Requires({"report"}, {"summary_csv"})
    /\ Requires({"map"}, {"report"})
    /\ files.results_csv # None => EventPositions({"results_csv"}) # {}
    /\ files.summary_csv # None => EventPositions({"summary_csv"}) # {}
    /\ files.report # None => EventPositions({"report"}) # {}
    /\ files.map # None => EventPositions({"map"}) # {}

C13_Witness ==
    /\ pc = "returned"
    /\ Len(properties) = MaxCount
    /\ Len(results) >= 2
    /\ OutputSteps \subseteq EventNames
    /\ files.map # None
    /\ events[Len(events)].e = "map"
    /\ events[Len(events) - 3].e = "results_csv"

\* the map step was invoked and left no map file
MapFailed == "map" \in EventNames /\ files.map = None

\* C14: a failure inside map rendering is caught: process_properties still
\* returns the complete result collection, the two CSVs and the report written
\* in the run stay in place, the entry point prints its summary, and the only
\* difference from a successful run is the missing map file.
C14_MapFailureCaught ==
    MapFailed =>
        /\ pc \in {"returned", "exit"}
        /\ ret = Some(results)
        /\ Len(results) = EventCount({"append"})
        /\ "raise" \notin EventNames
        /\ files.results_csv = Some(results)
        /\ files.summary_csv = Some(SummaryData(results))
        /\ files.report = Some(ReportTables(results))
        /\ pc = "exit" => stdout = Some("summary")

C14_Witness ==
    /\ MapFailed
    /\ pc = "exit"
    /\ stdout = Some("summary")
    /\ Len(results) = MaxCount
    /\ files.report # None

-----------------------------------------------------------------------------
(* _generate_reports and _create_interactive_map on their own *)

\* largest result collection handed to the two renderers
RenderMaxRows == 4

\* draws giving a solar property and new-installation scores 100, 75, 70, 65, 60
RenderDraws ==
    {MkDraw(29, TRUE, 600000, 1, 25),
     MkDraw(30, FALSE, 500000, 2, 5),
     MkDraw(30, TRUE, 300001, 3, 20),
     MkDraw(99, FALSE, 300001, 4, 20),
     MkDraw(99, TRUE, 300000, 3, 20),
     MkDraw(30, FALSE, 200000, 4, 25)}

\* a result collection as process_properties builds it when no image is fetched
RenderRows(n, loc, draws) ==
    LET ps == GenerateRealisticProperties(n, loc, draws) IN
    [k \in 1..n |->
        ResultEntry(ps[k], None,
                    AnalyzeSolarPotential(ps[k], [size |-> 60, savings |-> 600]),
                    k)]

InitRender ==
    /\ pc = "render_report"
    /\ location \in PipelineLocations
    /\ count \in 1..RenderMaxRows
    /\ results \in {RenderRows(count, location, draws) :
                       draws \in [1..count -> RenderDraws]}
    /\ location_data = None
    /\ properties = <<>>
    /\ idx = 0
    /\ files = NoFiles
    /\ images = {}
    /\ events = <<>>
    /\ ret = None
    /\ stdout = None
    /\ arg = None
    /\ res = None

\* self._generate_reports(results_df)
RenderReport ==
    /\ pc = "render_report"
    /\ files' = [files EXCEPT !.report = Some(ReportTables(results))]
    /\ pc' = "render_map"
    /\ UNCHANGED <<location, count, location_data, properties, idx, results,
                   images, events, ret, stdout, arg, res>>

\* self._create_interactive_map(results_df)
RenderMap ==
    /\ pc = "render_map"
    /\ files' = [files EXCEPT !.map = Some(MapMarkers(results))]
    /\ pc' = "render_ret"
    /\ UNCHANGED <<location, count, location_data, properties, idx, results,
                   images, events, ret, stdout, arg, res>>

NextRender == RenderReport \/ RenderMap

SpecRender == InitRender /\ [][NextRender]_vars

\* the colour the tiers give a row
TierColor(row) ==
    IF row.has_solar_panels THEN "green"
    ELSE IF row.solar_potential_score >= 71 THEN "orange"
    ELSE "blue"

Ids(rows) == {rows[k].property_id : k \in 1..Len(rows)}

\* C15: the map gets exactly one marker per property; a property is in the
\* solar tier iff has_solar_panels, in the high-potential tier iff it has no
\* solar and scores strictly above 70 (a score of exactly 70 is 'other'), and
\* in the other tier iff it has no solar and scores at most 70; the report's
\* high-potential table holds the non-solar properties scoring above 70.
C15_OneMarkerPerProperty ==
    pc = "render_ret" =>
        \A markers \in files.map, report \in files.report :
            /\ Len(markers) = Len(results)
            /\ \A k \in 1..Len(results) :
                  LET mine == {m \in 1..Len(markers) :
                                  markers[m].property_id = results[k].property_id}
                  IN  /\ Cardinality(mine) = 1
                      /\ \A m \in mine : markers[m].color = TierColor(results[k])
            /\ Ids(report.high_potential)
                 = {results[k].property_id :
                      k \in {j \in 1..Len(results) : TierColor(results[j]) = "orange"}}
            /\ Ids(report.solar_properties)
                 = {results[k].property_id :
                      k \in {j \in 1..Len(results) : results[j].has_solar_panels}}
            /\ Len(report.high_potential) + Len(report.solar_properties)
                 <= Len(results)

C15_Witness ==
    /\ pc = "render_ret"
    /\ Len(results) = 4
    /\ results[1].has_solar_panels
    /\ ~results[2].has_solar_panels /\ results[2].solar_potential_score = 70
    /\ ~results[4].has_solar_panels /\ results[4].solar_potential_score = 75
    /\ \A markers \in files.map :
          /\ markers[Len(markers)].color = "blue"
          /\ markers[Len(markers)].property_id = results[2].property_id
          /\ markers[Len(markers) - 1].color = "orange"

-----------------------------------------------------------------------------
(* Properties relating the result collection to the generated sequence *)

\* the append events and the fetch events of the run, in the order they happened
Appends == SelectSeq(events, LAMBDA ev : ev.e = "append")
Fetches == SelectSeq(events, LAMBDA ev : ev.e \in FetchEvents)

\* C16: the result collection is an order-preserving subsequence of the
\* generated sequence: its entries are generated properties in generation
\* order, each at most once, and each keeps the property_id (and address) it
\* was generated with, also when an earlier property was dropped.
C16_ResultsAreSubsequence ==
    /\ Len(Appends) = Len(results)
    /\ \A k \in 1..Len(results) :
          /\ k <= Len(Appends)
          /\ Appends[k].i \in 1..Len(properties)
          /\ results[k].property_id = properties[Appends[k].i].property_id
          /\ results[k].address = properties[Appends[k].i].address
          /\ DecimalValue(Tail(results[k].property_id)) = Appends[k].i
          /\ k > 1 => Appends[k - 1].i < Appends[k].i

C16_Witness ==
    /\ PassFinished
    /\ Len(properties) = MaxCount
    /\ Len(results) = MaxCount - 1
    /\ results[1].property_id = properties[2].property_id
    /\ results[2].property_id = properties[3].property_id

\* C17: one image fetch is attempted per generated property, in generation
\* order, and none is attempted again: the k-th fetch of the run is the fetch
\* for property k, a finished pass has made as many fetches as properties were
\* generated, and an entry's image_downloaded is true iff the fetch made for
\* its property returned a path.
C17_OneFetchPerProperty ==
    /\ Len(Fetches) = idx
    /\ \A k \in 1..Len(Fetches) : Fetches[k].i = k
    /\ PassFinished => Len(Fetches) = Len(properties)
    /\ Len(Appends) = Len(results)
    /\ \A k \in 1..Len(results) :
          /\ k <= Len(Appends)
          /\ Appends[k].i <= Len(Fetches)
          /\ results[k].image_downloaded
               <=> Fetches[Appends[k].i].e = "fetch_path"
          /\ results[k].image_downloaded <=> results[k].house_image_path # None

C17_Witness ==
    /\ pc = "exit"
    /\ Len(properties) = MaxCount
    /\ Len(Fetches) = MaxCount
    /\ Len(results) = MaxCount
    /\ results[1].image_downloaded
    /\ ~results[2].image_downloaded
    /\ Fetches[2].e = "fetch_none"

AnalysisFields ==
    {"solar_potential_score", "recommended_system_size_kw",
     "estimated_installation_cost", "estimated_annual_savings",
     "payback_period_years", "roi_percentage"}
ImageFields == {"house_image_path", "image_downloaded"}
AddedFields == AnalysisFields \cup ImageFields \cup {"processed_at"}

\* C18: enrichment leaves the property record unchanged: every field of the
\* generated record has the same value in the result entry, and the image
\* fields, the analysis fields and processed_at are names no generated record
\* has, so none of them overwrites a field of the record.
C18_RecordFieldsUnchanged ==
    /\ Len(Appends) = Len(results)
    /\ \A k \in 1..Len(results) :
          /\ k <= Len(Appends)
          /\ LET p == properties[Appends[k].i] IN
             /\ (DOMAIN p) \cap AddedFields = {}
             /\ DOMAIN results[k] = (DOMAIN p) \cup AddedFields
             /\ \A f \in DOMAIN p : results[k][f] = p[f]

C18_Witness ==
    /\ pc = "exit"
    /\ Len(results) >= 2
    /\ results[1].has_solar_panels
    /\ ~results[2].has_solar_panels
    /\ results[2].estimated_savings_annual = 0
    /\ results[2].estimated_annual_savings > 0
    /\ results[2].property_id = properties[2].property_id

\* C19: a failure of a CSV write or of the Report Writer is not recovered by
\* process_properties: the exception reaches the caller, no result collection
\* is returned, the Map Renderer is never invoked, every CSV written before the
\* failure stays as written, and the entry point prints its error message.
C19_OutputFailurePropagates ==
    "raise" \in EventNames =>
        /\ pc \in {"raised", "exit"}
        /\ ret = None
        /\ "map" \notin EventNames
        /\ files.map = None
        /\ files.report = None
        /\ "results_csv" \in EventNames => files.results_csv = Some(results)
        /\ "summary_csv" \in EventNames
              => files.summary_csv = Some(SummaryData(results))
        /\ pc = "exit" => stdout = Some("error")

C19_Witness ==
    /\ pc = "exit"
    /\ stdout = Some("error")
    /\ "report" \in EventNames
    /\ "raise" \in EventNames
    /\ files.results_csv # None
    /\ files.summary_csv # None
    /\ ret = None

====
